---- MODULE Spec2Model ----
(***************************************************************************)
(* Model of server/src/lib/files.ts (class Files): the catalog of voice    *)
(* clips kept in an S3 bucket, its asynchronous initialisation (listing,   *)
(* transcript loading, conversion of missing mp3s) and getRandomClip.      *)
(*                                                                         *)
(* Strings are sequences of one-character strings, so that indexOf,        *)
(* substr and concatenation are computed as the code computes them.        *)
(***************************************************************************)
EXTENDS Integers, Sequences, FiniteSets, TLC

\* ------------------------------------------------------------------ bounds
\* Largest number of objects the bucket listing returns.
MaxKeys == 3

\* --------------------------------------------------------------- constants
BATCH_SIZE == 5
MP3_EXT == <<".", "m", "p", "3">>
OGG_EXT == <<".", "o", "g", "g">>
M4A_EXT == <<".", "m", "4", "a">>
TXT_EXT == <<".", "t", "x", "t">>
WAV_EXT == <<".", "w", "a", "v">>
CONVERTABLE_EXTS == <<OGG_EXT, M4A_EXT>>

\* The object keys a bucket may hold, in the order the store lists them.
\* "a.x.mp3" and "a.x.ogg" have a '.' before their final extension, "b.OGG" an upper-case
\* extension, "d/" is a directory marker (no extension).
AllKeys ==
  << <<"a">> \o M4A_EXT,
     <<"a">> \o MP3_EXT,
     <<"a">> \o OGG_EXT,
     <<"a">> \o TXT_EXT,
     <<"a">> \o WAV_EXT,
     <<"a", ".", "x">> \o MP3_EXT,
     <<"a", ".", "x">> \o OGG_EXT,
     <<"b", ".", "O", "G", "G">>,
     <<"b">> \o OGG_EXT,
     <<"b">> \o TXT_EXT,
     <<"d", "/">> >>

KeyUniverse == {AllKeys[i] : i \in 1..Len(AllKeys)}

\* The listings the store can return: at most MaxKeys of the keys, in store
\* order.
Listings ==
  {SelectSeq(AllKeys, LAMBDA k : k \in S) :
     S \in {T \in SUBSET KeyUniverse : Cardinality(T) <= MaxKeys}}

\* ------------------------------------------------------- string functions
\* String.prototype.indexOf(ch): 0-based index of the first ch, or -1.
IndexOf(s, ch) ==
  IF \E i \in 1..Len(s) : s[i] = ch
  THEN (CHOOSE i \in 1..Len(s) : s[i] = ch /\ \A j \in 1..(i - 1) : s[j] # ch) - 1
  ELSE -1

\* String.prototype.lastIndexOf(ch): 0-based index of the last ch, or -1.
LastIndexOf(s, ch) ==
  IF \E i \in 1..Len(s) : s[i] = ch
  THEN (CHOOSE i \in 1..Len(s) : s[i] = ch /\ \A j \in (i + 1)..Len(s) : s[j] # ch) - 1
  ELSE -1

\* String.prototype.substr(0, n): the first n characters ('' when n <= 0).
Substr0(s, n) == SubSeq(s, 1, IF n > Len(s) THEN Len(s) ELSE n)

\* Array.prototype.indexOf(x) !== -1
Includes(arr, x) == \E i \in 1..Len(arr) : arr[i] = x

ToLowerChar(c) ==
  CASE c = "O" -> "o"
    [] c = "G" -> "g"
    [] OTHER -> c

ToLowerCase(s) == [i \in 1..Len(s) |-> ToLowerChar(s[i])]

\* getGlob: the path up to (not including) its FIRST '.'.
getGlob(path) == Substr0(path, IndexOf(path, "."))

\* getFileExt (lib/utility): the final extension of the key, lower-cased;
\* '' when the key has no '.'.
getFileExt(path) ==
  IF LastIndexOf(path, ".") = -1 THEN <<>>
  ELSE ToLowerCase(SubSeq(path, LastIndexOf(path, ".") + 1, Len(path)))

\* ------------------------------------------------------------------ state
VARIABLES
  boundThis,    \* TRUE when the store client invokes a callback written as
                \* `function (err, data) {...}` with the Files object as `this`
  bucket,       \* Contents the listing request returns, once it answers
  listState,    \* "notCalled" | "pending" | "ok" | "err": the listObjectsV2 call
  initPromise,  \* "none" | "pending" | "resolved" | "rejected": promise of init()
  convPromise,  \* "none" | "pending" | "resolved" | "settled": promise of
                \* convertMissingToMP3s(); settled once init's .then ran
  initialized,  \* this.initialized
  files,        \* this.files: glob -> [sentence, exts]
  paths,        \* this.paths
  mp3s,         \* this.mp3s
  tPending,     \* transcript queue: items pushed and not yet handed to a worker
  tBatch,       \* transcript queue: the batch handed to processBatch
  cPending,     \* conversion queue: jobs pushed and not yet handed to a worker
  cBatches,     \* conversion queue: every batch handed to convert, in order
  clip          \* outcome of the latest getRandomClip() call

vars == <<boundThis, bucket, listState, initPromise, convPromise, initialized,
          files, paths, mp3s, tPending, tBatch, cPending, cBatches, clip>>

\* sentence: null, or the text read from the store
Null == <<>>
Text(body) == <<body>>

\* Body of the object stored under key (each object holds its own text).
ObjectBody(key) == key

EmptyFiles == [g \in {} |-> [sentence |-> Null, exts |-> <<>>]]

NoClip == [kind |-> "none"]
NotInitialized == [kind |-> "rejected", reason |-> "Files not init."]
NoFiles == [kind |-> "rejected", reason |-> "No files."]
Clip(key, sentence) == [kind |-> "resolved", key |-> key, sentence |-> sentence]

\* ------------------------------------------------------------- the scan
\* As ScanKey, without the test that skips a key whose glob is empty.
ScanKeyNoSkip(acc, key) ==
  LET glob == getGlob(key)
      ext == getFileExt(key)
      known == glob \in DOMAIN acc.files
      fs == IF known THEN acc.files
            ELSE acc.files @@ (glob :> [sentence |-> Null, exts |-> <<>>])
  IN  IF ext = TXT_EXT
      THEN [files |-> fs,
            keys |-> IF known THEN acc.keys ELSE Append(acc.keys, glob),
            pushed |-> Append(acc.pushed, [path |-> key, glob |-> glob])]
      ELSE [files |-> [fs EXCEPT ![glob].exts = Append(@, ext)],
            keys |-> IF known THEN acc.keys ELSE Append(acc.keys, glob),
            pushed |-> acc.pushed]

\* One iteration of the loop over data.Contents.
ScanKey(acc, key) ==
  LET glob == getGlob(key)
      ext == getFileExt(key)
      known == glob \in DOMAIN acc.files
      fs == IF known THEN acc.files
            ELSE acc.files @@ (glob :> [sentence |-> Null, exts |-> <<>>])
  IN  IF glob = <<>> THEN acc
      ELSE IF ext = TXT_EXT
           THEN [files |-> fs,
                 keys |-> IF known THEN acc.keys ELSE Append(acc.keys, glob),
                 pushed |-> Append(acc.pushed, [path |-> key, glob |-> glob])]
           ELSE [files |-> [fs EXCEPT ![glob].exts = Append(@, ext)],
                 keys |-> IF known THEN acc.keys ELSE Append(acc.keys, glob),
                 pushed |-> acc.pushed]

\* The loop over data.Contents; keys is Object.keys(this.files) (insertion
\* order), pushed the items pushed to the transcript queue.
RECURSIVE ScanContents(_)
ScanContents(contents) ==
  IF contents = <<>>
  THEN [files |-> EmptyFiles, keys |-> <<>>, pushed |-> <<>>]
  ELSE ScanKey(ScanContents(SubSeq(contents, 1, Len(contents) - 1)),
               contents[Len(contents)])

\* ------------------------------------------------------- normalisation
\* As getMissingMP3s, without the test for '.mp3': every glob is missing.
getMissingAll(fs, ps) == ps

getMissingMP3s(fs, ps) ==
  SelectSeq(ps, LAMBDA path : ~Includes(fs[path].exts, MP3_EXT))

\* As SourceExt, without the allow-list: the first extension wins.
SourceExtAny(exts) == IF exts # <<>> THEN exts[1] ELSE <<>>

\* As SourceExt, by priority: '.ogg' when present, else '.m4a'.
SourceExtByPriority(exts) ==
  IF Includes(exts, OGG_EXT) THEN OGG_EXT
  ELSE IF Includes(exts, M4A_EXT) THEN M4A_EXT
  ELSE <<>>

\* The first convertible extension in exts order; '' (undefined) when none.
SourceExt(exts) ==
  IF \E i \in 1..Len(exts) : Includes(CONVERTABLE_EXTS, exts[i])
  THEN exts[CHOOSE i \in 1..Len(exts) :
              /\ Includes(CONVERTABLE_EXTS, exts[i])
              /\ \A j \in 1..(i - 1) : ~Includes(CONVERTABLE_EXTS, exts[j])]
  ELSE <<>>

\* The jobs convertMissingToMP3s pushes, in push order.
RECURSIVE ConversionJobs(_, _)
ConversionJobs(fs, missing) ==
  IF missing = <<>> THEN <<>>
  ELSE LET glob == Head(missing)
           ext == SourceExt(fs[glob].exts)
           rest == ConversionJobs(fs, Tail(missing))
       IN  IF ext # <<>> THEN <<[glob |-> glob, ext |-> ext]>> \o rest
           ELSE rest

generateMP3List(fs, ps) ==
  SelectSeq(ps, LAMBDA glob : Includes(fs[glob].exts, MP3_EXT))

\* ------------------------------------------------------ getRandomClip
\* As RandomIndex, scaled by n - 1: the last index is never drawn.
RandomIndexShort(n) == 0..(n - 2)

\* Math.floor(Math.random() * n): any index 0 .. n-1.
RandomIndex(n) == 0..(n - 1)

\* As GetRandomClipOutcomes, without the check of this.initialized.
GetRandomClipUnguarded ==
  IF Len(mp3s) = 0 THEN {NoFiles}
  ELSE {Clip(mp3s[i + 1] \o MP3_EXT, files[mp3s[i + 1]].sentence) :
          i \in RandomIndex(Len(mp3s))}

\* As GetRandomClipOutcomes, without the check for an empty list: the glob
\* drawn from an empty list is undefined.
GetRandomClipNoEmptyCheck ==
  IF ~initialized THEN {NotInitialized}
  ELSE IF Len(mp3s) = 0 THEN {Clip(<<"u", "n", "d", "e", "f", "i", "n", "e", "d">> \o MP3_EXT, Null)}
  ELSE {Clip(mp3s[i + 1] \o MP3_EXT, files[mp3s[i + 1]].sentence) :
          i \in RandomIndex(Len(mp3s))}

\* Every outcome a call of getRandomClip() can have in the current state.
GetRandomClipOutcomes ==
  IF ~initialized THEN {NotInitialized}
  ELSE IF Len(mp3s) = 0 THEN {NoFiles}
  ELSE {Clip(mp3s[i + 1] \o MP3_EXT, files[mp3s[i + 1]].sentence) :
          i \in RandomIndex(Len(mp3s))}

\* ------------------------------------------------------------ the queues
Min(a, b) == IF a < b THEN a ELSE b

\* A batch of the transcript queue: its items, each with the state of its
\* getObject request ("inflight", "ok", "err", or "thrown" when the callback
\* raised before calling cb).
NewTranscriptBatch(items) ==
  [i \in 1..Len(items) |->
     [path |-> items[i].path, glob |-> items[i].glob, st |-> "inflight"]]

\* A batch of the conversion queue, as convert() starts it: `finished` is the
\* closure's counter, `done` whether the batch's cb has been called, `calls`
\* how many times, and each job carries the state of its getObject and of
\* its putObject request.
NewConversionBatch(jobs) ==
  [jobs |-> [i \in 1..Len(jobs) |->
               [glob |-> jobs[i].glob, ext |-> jobs[i].ext,
                get |-> "inflight", put |-> "inflight"]],
   finished |-> 0,
   done |-> FALSE,
   calls |-> 0]

\* The queue runs one batch at a time (better-queue's default concurrency).
ConversionRunning ==
  cBatches # <<>> /\ ~cBatches[Len(cBatches)].done

\* cb() of batch b: the queue takes the first call from its running batch
\* as the end of that batch and ignores any later call. When nothing is left
\* to run the queue emits 'drain', whose handler resolves the promise of
\* convertMissingToMP3s.
BatchCallback(batches, b) ==
  [batches EXCEPT ![b].done = TRUE, ![b].calls = @ + 1]

DrainAfter(batches) ==
  /\ batches[Len(batches)].done
  /\ cPending = <<>>

\* ---------------------------------------------------------------- actions
Init ==
  /\ boundThis \in BOOLEAN
  /\ bucket \in Listings
  /\ listState = "notCalled"
  /\ initPromise = "none"
  /\ convPromise = "none"
  /\ initialized = FALSE
  /\ files = EmptyFiles
  /\ paths = <<>>
  /\ mp3s = <<>>
  /\ tPending = <<>>
  /\ tBatch = <<>>
  /\ cPending = <<>>
  /\ cBatches = <<>>
  /\ clip = NoClip

\* init(): creates the transcript queue and the promise, sends listObjectsV2.
CallInit ==
  /\ listState = "notCalled"
  /\ listState' = "pending"
  /\ initPromise' = "pending"
  /\ UNCHANGED <<boundThis, bucket, convPromise, initialized, files, paths,
                 mp3s, tPending, tBatch, cPending, cBatches, clip>>

\* The listObjectsV2 callback with err set: logs and returns.
ListFailed ==
  /\ listState = "pending"
  /\ listState' = "err"
  /\ UNCHANGED <<boundThis, bucket, initPromise, convPromise, initialized,
                 files, paths, mp3s, tPending, tBatch, cPending, cBatches, clip>>

\* The listObjectsV2 callback with data: the scan, then either the
\* empty-catalog exit or the synchronous part of convertMissingToMP3s().
ListSucceeded ==
  /\ listState = "pending"
  /\ listState' = "ok"
  /\ LET scan == ScanContents(bucket)
         missing == getMissingMP3s(scan.files, scan.keys)
     IN  /\ files' = scan.files
         /\ tPending' = scan.pushed
         /\ paths' = scan.keys
         /\ IF Len(scan.keys) = 0
            THEN /\ initialized' = TRUE
                 /\ initPromise' = "resolved"
                 /\ UNCHANGED <<convPromise, cPending>>
            ELSE /\ UNCHANGED <<initialized, initPromise>>
                 /\ IF Len(missing) < 1
                    THEN /\ convPromise' = "resolved"
                         /\ UNCHANGED cPending
                    ELSE /\ convPromise' = "pending"
                         /\ cPending' = ConversionJobs(scan.files, missing)
  /\ UNCHANGED <<boundThis, bucket, mp3s, tBatch, cBatches, clip>>

\* The .then callback of init, run once convertMissingToMP3s() has resolved.
ConvertedThen ==
  /\ convPromise = "resolved"
  /\ convPromise' = "settled"
  /\ mp3s' = generateMP3List(files, paths)
  /\ initialized' = TRUE
  /\ initPromise' = "resolved"
  /\ UNCHANGED <<boundThis, bucket, listState, files, paths, tPending, tBatch,
                 cPending, cBatches, clip>>

\* The transcript queue hands its next batch (1 .. BATCH_SIZE items, in push
\* order) to processBatch, which sends a getObject per item.
TranscriptBatchStart ==
  /\ tBatch = <<>>
  /\ tPending # <<>>
  /\ \E n \in 1..Min(BATCH_SIZE, Len(tPending)) :
       /\ tBatch' = NewTranscriptBatch(SubSeq(tPending, 1, n))
       /\ tPending' = SubSeq(tPending, n + 1, Len(tPending))
  /\ UNCHANGED <<boundThis, bucket, listState, initPromise, convPromise,
                 initialized, files, paths, mp3s, cPending, cBatches, clip>>

\* The getObject callback of process() with err set: cb(err) rejects the
\* item, map() rejects, .error() logs and the batch's cb is never called.
TranscriptGetFailed ==
  \E i \in 1..Len(tBatch) :
    /\ tBatch[i].st = "inflight"
    /\ tBatch' = [tBatch EXCEPT ![i].st = "err"]
    /\ UNCHANGED <<boundThis, bucket, listState, initPromise, convPromise,
                   initialized, files, paths, mp3s, tPending, cPending,
                   cBatches, clip>>

\* The getObject callback of process() with the body: stores the sentence
\* and calls cb(null); when every item of the batch has done so map()
\* resolves and .then(cb) ends the batch. `this.files` is reached through
\* the callback's own `this`: when that is not the Files object the
\* assignment raises and cb is not called.
TranscriptGetSucceeded ==
  \E i \in 1..Len(tBatch) :
    /\ tBatch[i].st = "inflight"
    /\ IF boundThis
       THEN LET after == [tBatch EXCEPT ![i].st = "ok"]
            IN  /\ files' = [files EXCEPT ![tBatch[i].glob].sentence =
                                             Text(ObjectBody(tBatch[i].path))]
                /\ tBatch' = IF \A j \in 1..Len(after) : after[j].st = "ok"
                             THEN <<>> ELSE after
       ELSE /\ tBatch' = [tBatch EXCEPT ![i].st = "thrown"]
            /\ UNCHANGED files
    /\ UNCHANGED <<boundThis, bucket, listState, initPromise, convPromise,
                   initialized, paths, mp3s, tPending, cPending, cBatches, clip>>

\* The conversion queue hands its next batch to convert(), which sends a
\* getObject and a putObject per job.
ConversionBatchStart ==
  /\ ~ConversionRunning
  /\ cPending # <<>>
  /\ \E n \in 1..Min(BATCH_SIZE, Len(cPending)) :
       /\ cBatches' = Append(cBatches, NewConversionBatch(SubSeq(cPending, 1, n)))
       /\ cPending' = SubSeq(cPending, n + 1, Len(cPending))
  /\ UNCHANGED <<boundThis, bucket, listState, initPromise, convPromise,
                 initialized, files, paths, mp3s, tPending, tBatch, clip>>

\* What a call of batch b's cb does to the queue and to the promise of
\* convertMissingToMP3s.
EndBatch(after, b) ==
  LET ended == BatchCallback(after, b)
  IN  /\ cBatches' = ended
      /\ convPromise' = IF convPromise = "pending" /\ DrainAfter(ended)
                        THEN "resolved" ELSE convPromise

\* The getObject callback of convert() with err set: logs and calls cb().
ConversionGetFailed ==
  \E b \in 1..Len(cBatches) : \E j \in 1..Len(cBatches[b].jobs) :
    /\ cBatches[b].jobs[j].get = "inflight"
    /\ EndBatch([cBatches EXCEPT ![b].jobs[j].get = "err"], b)
    /\ UNCHANGED <<boundThis, bucket, listState, initPromise, initialized,
                   files, paths, mp3s, tPending, tBatch, cPending, clip>>

\* The getObject callback of convert() with the data: does nothing.
ConversionGetSucceeded ==
  \E b \in 1..Len(cBatches) : \E j \in 1..Len(cBatches[b].jobs) :
    /\ cBatches[b].jobs[j].get = "inflight"
    /\ cBatches' = [cBatches EXCEPT ![b].jobs[j].get = "ok"]
    /\ UNCHANGED <<boundThis, bucket, listState, initPromise, convPromise,
                   initialized, files, paths, mp3s, tPending, tBatch, cPending,
                   clip>>

\* The putObject callback of convert() with err set (the transcoded stream
\* or the write failed): logs and calls cb().
ConversionPutFailed ==
  \E b \in 1..Len(cBatches) : \E j \in 1..Len(cBatches[b].jobs) :
    /\ cBatches[b].jobs[j].get # "inflight"
    /\ cBatches[b].jobs[j].put = "inflight"
    /\ EndBatch([cBatches EXCEPT ![b].jobs[j].put = "err"], b)
    /\ UNCHANGED <<boundThis, bucket, listState, initPromise, initialized,
                   files, paths, mp3s, tPending, tBatch, cPending, clip>>

\* The putObject callback of convert() after a successful write: records
\* '.mp3', counts the job and calls cb() when the count reaches jobs.length.
\* As in process(), `this.files` goes through the callback's own `this`.
ConversionPutSucceeded ==
  \E b \in 1..Len(cBatches) : \E j \in 1..Len(cBatches[b].jobs) :
    /\ cBatches[b].jobs[j].get = "ok"
    /\ cBatches[b].jobs[j].put = "inflight"
    /\ IF boundThis
       THEN LET counted == [cBatches EXCEPT ![b].jobs[j].put = "ok",
                                            ![b].finished = @ + 1]
            IN  /\ files' = [files EXCEPT ![cBatches[b].jobs[j].glob].exts =
                                             Append(@, MP3_EXT)]
                /\ IF counted[b].finished = Len(counted[b].jobs)
                   THEN EndBatch(counted, b)
                   ELSE /\ cBatches' = counted
                        /\ UNCHANGED convPromise
       ELSE /\ cBatches' = [cBatches EXCEPT ![b].jobs[j].put = "thrown"]
            /\ UNCHANGED <<files, convPromise>>
    /\ UNCHANGED <<boundThis, bucket, listState, initPromise, initialized,
                   paths, mp3s, tPending, tBatch, cPending, clip>>

\* A call of getRandomClip().
GetRandomClip ==
  /\ \E outcome \in GetRandomClipOutcomes : clip' = outcome
  /\ UNCHANGED <<boundThis, bucket, listState, initPromise, convPromise,
                 initialized, files, paths, mp3s, tPending, tBatch, cPending,
                 cBatches>>

Next ==
  \/ CallInit
  \/ ListFailed
  \/ ListSucceeded
  \/ ConvertedThen
  \/ TranscriptBatchStart
  \/ TranscriptGetFailed
  \/ TranscriptGetSucceeded
  \/ ConversionBatchStart
  \/ ConversionGetFailed
  \/ ConversionGetSucceeded
  \/ ConversionPutFailed
  \/ ConversionPutSucceeded
  \/ GetRandomClip

Spec == Init /\ [][Next]_vars

\* The same program, with the scheduling the runtime provides: a request
\* sent to the store is answered (with data or with an error), a queue with
\* pending items and no running batch starts a batch, and a resolved
\* promise runs its .then callback. Calls of init() and getRandomClip() are
\* the caller's and carry no fairness.
FairSpec ==
  /\ Init
  /\ [][Next]_vars
  /\ WF_vars(ListFailed \/ ListSucceeded)
  /\ WF_vars(ConvertedThen)
  /\ WF_vars(TranscriptBatchStart)
  /\ WF_vars(TranscriptGetFailed \/ TranscriptGetSucceeded)
  /\ WF_vars(ConversionBatchStart)
  /\ WF_vars(ConversionGetFailed \/ ConversionGetSucceeded)
  /\ WF_vars(ConversionPutFailed \/ ConversionPutSucceeded)

\* ----------------------------------------------------------------- claims
Ready == initialized /\ initPromise = "resolved"

\* Some store request or transcode has completed with an error.
SomeRequestFailed ==
  \/ listState = "err"
  \/ \E i \in 1..Len(tBatch) : tBatch[i].st = "err"
  \/ \E b \in 1..Len(cBatches) : \E j \in 1..Len(cBatches[b].jobs) :
       cBatches[b].jobs[j].get = "err" \/ cBatches[b].jobs[j].put = "err"

\* A transcript item is still queued or its getObject is still in flight.
TranscriptOutstanding ==
  \/ tPending # <<>>
  \/ \E i \in 1..Len(tBatch) : tBatch[i].st = "inflight"

\* C1: once init() is called, and as long as no store request or transcode
\* fails, the promise of init() eventually resolves with the readiness flag
\* set, whatever the listing holds. Stated for the runs in which the
\* callbacks of process and convert reach the catalog through `this`.
C1_InitEventuallyReady ==
  (boundThis /\ initPromise = "pending") ~> (Ready \/ SomeRequestFailed)

\* C2: when the listing request fails the promise of init() is rejected,
\* the readiness flag stays false and neither transcript loading nor
\* conversion is started.
C2_ListFailureRejects ==
  listState = "err" =>
    /\ initPromise = "rejected"
    /\ ~initialized
    /\ tPending = <<>> /\ tBatch = <<>>
    /\ cPending = <<>> /\ cBatches = <<>>

\* C3: while the promise of init() has not resolved (before init() is
\* called, during the listing, the transcript loading or the conversions),
\* the only outcome of getRandomClip() is the rejection 'Files not init.'.
C3_NotInitBeforeResolved ==
  initPromise # "resolved" => GetRandomClipOutcomes = {NotInitialized}

\* A call rejected with 'Files not init.' while a conversion is in flight.
C3_Witness ==
  /\ clip = NotInitialized
  /\ initPromise = "pending"
  /\ convPromise = "pending"
  /\ \E b \in 1..Len(cBatches) : \E j \in 1..Len(cBatches[b].jobs) :
       cBatches[b].jobs[j].put = "inflight"

\* C4: when the catalog is ready and the canonical list is empty the only
\* outcome of getRandomClip() is the rejection 'No files.'; a scan that
\* observed no glob leaves the catalog ready with an empty canonical list.
C4_NoFilesWhenEmpty ==
  /\ (Ready /\ Len(mp3s) = 0) => GetRandomClipOutcomes = {NoFiles}
  /\ (listState = "ok" /\ Len(paths) = 0) => (Ready /\ Len(mp3s) = 0)

\* A call rejected with 'No files.' after a scan that observed no glob.
C4_Witness ==
  /\ clip = NoFiles
  /\ Ready
  /\ listState = "ok"
  /\ Len(paths) = 0
  /\ bucket # <<>>

\* C5: when the catalog is ready with a non-empty canonical list, every
\* outcome of getRandomClip() is a pair (g + '.mp3', current transcript of
\* g) for a glob g of the canonical list, and every glob of the list is the
\* glob of some outcome.
C5_ClipFromCanonicalList ==
  (Ready /\ Len(mp3s) > 0) =>
    /\ \A o \in GetRandomClipOutcomes :
         /\ o.kind = "resolved"
         /\ \E i \in 1..Len(mp3s) :
              /\ o.key = mp3s[i] \o MP3_EXT
              /\ o.sentence = files[mp3s[i]].sentence
    /\ \A i \in 1..Len(mp3s) :
         \E o \in GetRandomClipOutcomes : o.key = mp3s[i] \o MP3_EXT

\* A clip returned from a canonical list of two globs, one with a loaded
\* transcript and one without.
C5_Witness ==
  /\ Ready
  /\ Len(mp3s) = 2
  /\ clip.kind = "resolved"
  /\ clip.key = mp3s[2] \o MP3_EXT
  /\ files[mp3s[1]].sentence # files[mp3s[2]].sentence
  /\ clip.sentence # Null

\* C6: once init() has resolved, the canonical list holds exactly the globs
\* whose encodings contain '.mp3'.
C6_CanonicalListExact ==
  initPromise = "resolved" =>
    \A g \in DOMAIN files :
      Includes(mp3s, g) <=> Includes(files[g].exts, MP3_EXT)

\* C7: normalisation starts, and the readiness flag is set, only when no
\* transcript item is queued or in flight any more.
C7_TranscriptsBeforeNormalizing ==
  (convPromise # "none" \/ initialized) => ~TranscriptOutstanding

\* C8: once init() has resolved no step changes files, paths or mp3s.
C8_FrozenAfterReady ==
  [][initPromise = "resolved" => UNCHANGED <<files, paths, mp3s>>]_vars

\* A transcript fetch, a source read, a transcode or a write-back has
\* completed with an error.
SomeItemFailed == listState = "ok" /\ SomeRequestFailed

\* C9: when the listing succeeds and some transcript fetch, source read,
\* transcode or write-back fails, init() is never rejected and still
\* eventually resolves ready. Stated for the runs in which the callbacks of
\* process and convert reach the catalog through `this`.
C9_FailuresIsolated ==
  /\ [](initPromise # "rejected")
  /\ (boundThis /\ SomeItemFailed) ~> Ready

\* The encodings of a glob as the scan left them.
ScannedExts(g) == ScanContents(bucket).files[g].exts

Convertible(exts) ==
  \E i \in 1..Len(exts) : Includes(CONVERTABLE_EXTS, exts[i])

\* C10: a glob that the scan left with neither '.mp3' nor a convertible
\* extension never has a conversion job, never gains '.mp3', is never in the
\* canonical list and is never returned by getRandomClip().
C10_NonConvertibleExcluded ==
  listState = "ok" =>
    LET scanned == ScanContents(bucket).files IN
    \A g \in DOMAIN files :
      (~Includes(scanned[g].exts, MP3_EXT) /\ ~Convertible(scanned[g].exts)) =>
        /\ \A i \in 1..Len(cPending) : cPending[i].glob # g
        /\ \A b \in 1..Len(cBatches) : \A j \in 1..Len(cBatches[b].jobs) :
             cBatches[b].jobs[j].glob # g
        /\ ~Includes(files[g].exts, MP3_EXT)
        /\ ~Includes(mp3s, g)
        /\ \A o \in GetRandomClipOutcomes :
             o.kind = "resolved" => o.key # g \o MP3_EXT
        /\ clip.kind = "resolved" => clip.key # g \o MP3_EXT

\* The catalog is ready and serves a clip while it holds a glob whose only
\* audio is '.wav'.
C10_Witness ==
  /\ Ready
  /\ clip.kind = "resolved"
  /\ \E g \in DOMAIN files :
       /\ Includes(files[g].exts, WAV_EXT)
       /\ ~Includes(ScannedExts(g), MP3_EXT)
       /\ ~Convertible(ScannedExts(g))
  /\ \E b \in 1..Len(cBatches) : \E j \in 1..Len(cBatches[b].jobs) :
       cBatches[b].jobs[j].put = "ok"

\* C11: after a transcript batch in which some fetch failed, the queue
\* still ends that batch and hands every other pushed item to the worker:
\* the transcript queue eventually holds no pending item and no unfinished
\* batch. Stated for the runs in which the callbacks of process reach the
\* catalog through `this`.
C11_TranscriptQueueDrains ==
  (boundThis /\ tPending # <<>>) ~> (tPending = <<>> /\ tBatch = <<>>)

\* A job has reported: its read failed, or its write succeeded or failed.
Reported(job) == job.get = "err" \/ job.put \in {"ok", "err"}

AllReported(b) ==
  \A j \in 1..Len(cBatches[b].jobs) : Reported(cBatches[b].jobs[j])

\* C12: the completion callback of a conversion batch is called at most
\* once and only when every job of the batch has reported, and it has been
\* called once every job has reported. Stated for the runs in which the
\* callbacks of convert reach the catalog through `this`.
C12_CountBasedCompletion ==
  boundThis =>
    \A b \in 1..Len(cBatches) :
      /\ cBatches[b].calls <= 1
      /\ cBatches[b].calls >= 1 => AllReported(b)
      /\ AllReported(b) => cBatches[b].calls >= 1

\* Every job pushed to the conversion queue, handed to a worker or not.
AllJobs ==
  {cPending[i] : i \in 1..Len(cPending)} \cup
  UNION {{[glob |-> cBatches[b].jobs[j].glob, ext |-> cBatches[b].jobs[j].ext] :
            j \in 1..Len(cBatches[b].jobs)} : b \in 1..Len(cBatches)}

\* The number of jobs pushed for glob g.
JobCount(g) ==
  Cardinality({i \in 1..Len(cPending) : cPending[i].glob = g}) +
  Cardinality({bj \in (1..Len(cBatches)) \X (1..BATCH_SIZE) :
                 /\ bj[2] <= Len(cBatches[bj[1]].jobs)
                 /\ cBatches[bj[1]].jobs[bj[2]].glob = g})

\* C13: jobs exist only for globs that the scan left without '.mp3', at
\* most one per glob; the encodings of a glob that the scan left with '.mp3'
\* never change; when the scan left every glob with '.mp3' no job exists and
\* the promise of convertMissingToMP3s is resolved at once.
C13_OnlyMissingConverted ==
  listState = "ok" =>
    LET scanned == ScanContents(bucket).files
    IN  /\ \A job \in AllJobs : ~Includes(scanned[job.glob].exts, MP3_EXT)
        /\ \A g \in DOMAIN files :
             /\ JobCount(g) <= 1
             /\ Includes(scanned[g].exts, MP3_EXT) =>
                  (JobCount(g) = 0 /\ files[g].exts = scanned[g].exts)
        /\ (DOMAIN files # {} /\
            \A g \in DOMAIN files : Includes(scanned[g].exts, MP3_EXT)) =>
             (AllJobs = {} /\ convPromise \in {"resolved", "settled"})

\* A glob listed with '.mp3' and a convertible encoding is left alone while
\* another glob's conversion has completed and the catalog is ready.
C13_Witness ==
  /\ Ready
  /\ \E g \in DOMAIN files :
       /\ Includes(files[g].exts, MP3_EXT)
       /\ Includes(files[g].exts, OGG_EXT)
       /\ JobCount(g) = 0
  /\ \E b \in 1..Len(cBatches) : \E j \in 1..Len(cBatches[b].jobs) :
       cBatches[b].jobs[j].put = "ok"

\* ------------------------------------------------- the conversion queue
\* under load: a bucket of BATCH_SIZE + 1 clips, each with '.ogg' only, no
\* transcripts, and no call of getRandomClip.
GlobNames == <<"p", "q", "r", "s", "t", "u">>

LoadListing == [i \in 1..(BATCH_SIZE + 1) |-> <<GlobNames[i]>> \o OGG_EXT]

LoadInit ==
  /\ boundThis = TRUE
  /\ bucket = LoadListing
  /\ listState = "notCalled"
  /\ initPromise = "none"
  /\ convPromise = "none"
  /\ initialized = FALSE
  /\ files = EmptyFiles
  /\ paths = <<>>
  /\ mp3s = <<>>
  /\ tPending = <<>>
  /\ tBatch = <<>>
  /\ cPending = <<>>
  /\ cBatches = <<>>
  /\ clip = NoClip

LoadNext ==
  \/ CallInit
  \/ ListSucceeded
  \/ ConvertedThen
  \/ ConversionBatchStart
  \/ ConversionGetFailed
  \/ ConversionGetSucceeded
  \/ ConversionPutFailed
  \/ ConversionPutSucceeded

LoadSpec == LoadInit /\ [][LoadNext]_vars

\* The jobs with a store read or write that has not called back.
Outstanding ==
  {bj \in (1..Len(cBatches)) \X (1..BATCH_SIZE) :
     /\ bj[2] <= Len(cBatches[bj[1]].jobs)
     /\ \/ cBatches[bj[1]].jobs[bj[2]].get = "inflight"
        \/ cBatches[bj[1]].jobs[bj[2]].put = "inflight"}

\* C14: a worker invocation receives at most BATCH_SIZE jobs, and at most
\* BATCH_SIZE jobs have a store read or write outstanding at any moment.
C14_BoundedLoad ==
  /\ \A b \in 1..Len(cBatches) : Len(cBatches[b].jobs) <= BATCH_SIZE
  /\ Cardinality(Outstanding) <= BATCH_SIZE

\* The keys of the listing.
Listed == {bucket[i] : i \in 1..Len(bucket)}

\* The key has an extension: a '.' somewhere in it.
HasExtension(key) == \E i \in 1..Len(key) : key[i] = "."

\* The key without its final extension segment.
StripFinalExtension(key) == Substr0(key, LastIndexOf(key, "."))

\* C15: the catalog entry of a listed key is the key with only its final
\* extension stripped, so two listed keys share an entry exactly when they
\* differ only in their final extension.
C15_GlobStripsFinalExtension ==
  listState = "ok" =>
    /\ \A k \in Listed :
         HasExtension(k) =>
           /\ getGlob(k) = StripFinalExtension(k)
           /\ StripFinalExtension(k) \in DOMAIN files
    /\ \A k1, k2 \in Listed :
         (HasExtension(k1) /\ HasExtension(k2)) =>
           ((getGlob(k1) = getGlob(k2)) <=>
            (StripFinalExtension(k1) = StripFinalExtension(k2)))

\* The transcript items pushed so far, handed to the worker or not.
TranscriptItems ==
  {tPending[i] : i \in 1..Len(tPending)} \cup
  {[path |-> tBatch[i].path, glob |-> tBatch[i].glob] : i \in 1..Len(tBatch)}

ConvertibleKeyAt(i, g) ==
  /\ getGlob(bucket[i]) = g
  /\ Includes(CONVERTABLE_EXTS, getFileExt(bucket[i]))

\* The convertible extensions listed for glob g.
ConvertibleListed(g) ==
  {getFileExt(bucket[i]) : i \in {n \in 1..Len(bucket) : ConvertibleKeyAt(n, g)}}

\* C17 as claimed: the source extension of a job is '.ogg' when its glob was
\* listed with both '.ogg' and '.m4a', and the only convertible extension
\* when the glob was listed with exactly one.
C17_OggBeforeM4a ==
  listState = "ok" =>
    \A job \in AllJobs :
      /\ {OGG_EXT, M4A_EXT} \subseteq ConvertibleListed(job.glob) =>
           job.ext = OGG_EXT
      /\ Cardinality(ConvertibleListed(job.glob)) = 1 =>
           job.ext \in ConvertibleListed(job.glob)

\* C17, amended: the source extension of a job is the extension of the
\* first listed key of its glob that has a convertible extension; it is the
\* only convertible extension when the glob was listed with exactly one.
C17_FirstListedConvertible ==
  listState = "ok" =>
    \A job \in AllJobs :
      /\ \E i \in 1..Len(bucket) :
           /\ ConvertibleKeyAt(i, job.glob)
           /\ \A j \in 1..(i - 1) : ~ConvertibleKeyAt(j, job.glob)
           /\ job.ext = getFileExt(bucket[i])
      /\ Cardinality(ConvertibleListed(job.glob)) = 1 =>
           job.ext \in ConvertibleListed(job.glob)

\* A glob listed with '.m4a' before '.ogg' has been converted from '.m4a'.
C17_Witness ==
  \E b \in 1..Len(cBatches) : \E j \in 1..Len(cBatches[b].jobs) :
    /\ cBatches[b].jobs[j].ext = M4A_EXT
    /\ cBatches[b].jobs[j].put = "ok"
    /\ {OGG_EXT, M4A_EXT} \subseteq ConvertibleListed(cBatches[b].jobs[j].glob)

\* No listed key holds an upper-case character, so that every extension is
\* recorded as it was listed.
LowerCaseListing == \A k \in Listed : ToLowerCase(k) = k

\* C18: no extension appears twice in the encodings of a recording. Stated
\* for listings without upper-case characters.
C18_EncodingsAreASet ==
  LowerCaseListing =>
    \A g \in DOMAIN files :
      \A i, j \in 1..Len(files[g].exts) :
        i # j => files[g].exts[i] # files[g].exts[j]

\* The putObject of key has completed successfully.
PutCompleted(key) ==
  \E b \in 1..Len(cBatches) : \E j \in 1..Len(cBatches[b].jobs) :
    /\ cBatches[b].jobs[j].glob \o MP3_EXT = key
    /\ cBatches[b].jobs[j].put \in {"ok", "thrown"}

\* C19: a glob has '.mp3' in its encodings only if the key glob + '.mp3' was
\* listed or written successfully, '.mp3' is not recorded for a job whose
\* read, transcode or write failed, and the key of a returned clip was
\* listed or written successfully.
C19_ReturnedKeyExists ==
  /\ \A g \in DOMAIN files :
       Includes(files[g].exts, MP3_EXT) =>
         (g \o MP3_EXT \in Listed \/ PutCompleted(g \o MP3_EXT))
  /\ \A b \in 1..Len(cBatches) : \A j \in 1..Len(cBatches[b].jobs) :
       (cBatches[b].jobs[j].get = "err" \/ cBatches[b].jobs[j].put = "err") =>
         ~Includes(files[cBatches[b].jobs[j].glob].exts, MP3_EXT)
  /\ clip.kind = "resolved" =>
       (clip.key \in Listed \/ PutCompleted(clip.key))

\* C20: the key glob + ext that a conversion job reads was listed. Stated
\* for listings without upper-case characters.
C20_JobSourceListed ==
  (listState = "ok" /\ LowerCaseListing) =>
    \A job \in AllJobs : job.glob \o job.ext \in Listed

====
